---- MODULE Spec2Model ----
(***************************************************************************)
(* Model of the Pixpel NFT marketplace contract (src/src/lib.rs).          *)
(*                                                                         *)
(* The contract state is one StateMap from TokenInfo to TokenState.  Four  *)
(* receive functions act on it: add (place_into_market), trade_nft         *)
(* (trade_market, payable), cancel_trade and finalise_trade.  Outbound     *)
(* calls go to the CIS-2 token contract (Cis2Client) and to the host's     *)
(* native transfer (invoke_transfer).  A receive function that returns Err *)
(* is rejected by the host: its state writes, its transfers and the        *)
(* attached amount are all rolled back.                                    *)
(*                                                                         *)
(* trade_nft, cancel_trade and finalise_trade read the record with         *)
(*     host.state_mut().tokens.entry(info).occupied_or(..)?.to_owned()     *)
(* OccupiedEntry is not Clone, so to_owned() resolves through Deref to     *)
(* TokenState::clone: token_state is a detached copy, the entry is dropped *)
(* unmodified, and the field assignments that follow change the copy only. *)
(* add assigns through the entry itself (no to_owned), so it does write.   *)
(***************************************************************************)
EXTENDS Integers, Sequences, FiniteSets, TLC

\* ---------------------------------------------------------------- bounds
MaxPrice == 1       \* largest ask price given to place_into_market
MaxAmount == 2      \* largest payment attached to trade_market
MaxTime == 1        \* largest slot time and largest expiry
MaxEscrow == 3      \* cap on the funds the contract holds for one key

\* ---------------------------------------------------------------- data
Accounts == {"a1", "a2", "a3"}
Sentinel == "zero"
Keys == {"k1"}
\* sale_type is a u8 the code compares with 0 and 1 only: 2 stands for the rest.
Tags == {0, 1, 2}
Answers == {"Err", "No", "Yes"}

VARIABLES
    tokens,   \* State.tokens: the StateMap, a function on the keys that have a record
    holder,   \* the CIS-2 contract's ledger: the account holding each token
    escrow,   \* the CCD the marketplace holds, by the key whose calls left it there
    now,      \* the ledger's slot time (milliseconds)
    last      \* the transaction just executed (see Call)

vars == <<tokens, holder, escrow, now, last>>

TokenState(sale_type, curr_state, owner, expiry, highest_bidder, price) ==
    [sale_type |-> sale_type, curr_state |-> curr_state, owner |-> owner,
     expiry |-> expiry, highest_bidder |-> highest_bidder, price |-> price]

RECURSIVE SumKeys(_, _)
SumKeys(f, S) ==
    IF S = {} THEN 0
    ELSE LET k == CHOOSE x \in S : TRUE IN f[k] + SumKeys(f, S \ {k})

\* The contract's CCD balance: everything it holds, over all keys.
Balance == SumKeys(escrow, Keys)

RECURSIVE SumPaid(_)
SumPaid(paid) ==
    IF paid = <<>> THEN 0 ELSE Head(paid)[2] + SumPaid(Tail(paid))

\* What a receive function leaves behind: its return value, the committed
\* map and token custody, the native transfers and token transfers made.
Outcome(result, toks, hold, paid, moved) ==
    [result |-> result, tokens |-> toks, holder |-> hold, paid |-> paid, moved |-> moved]

\* An Err return: the host discards every effect of the call.
Reject(err, toks, hold) == Outcome(err, toks, hold, <<>>, <<>>)

\* ------------------------------------------------- token-contract gateway
\* Cis2Client::transfer: the token contract moves one unit when `from`
\* holds it and the contract accepts the call (operator approval etc.).
Cis2TransferOk(hold, k, from, accept) == accept /\ hold[k] = from

\* host.invoke_transfer: fails with AmountTooLarge when the contract's
\* balance does not cover the amount (the receivers here always exist).
invoke_transfer_ok(balance, amount) == amount <= balance

ensure_supports_cis2(supports) ==
    IF supports = "Err" THEN "Cis2ClientError"
    ELSE IF supports = "No" THEN "CollectionNotCis2" ELSE "Ok"

ensure_is_operator(operator) ==
    IF operator = "Err" THEN "Cis2ClientError"
    ELSE IF operator = "No" THEN "NotOperator" ELSE "Ok"

ensure_balance(hold, k, sender) ==
    IF hold[k] = sender THEN "Ok" ELSE "NoBalance"

\* ---------------------------------------------------------------- add
add_early_write(toks, hold, invoker, k, price, sale_type_tag, expiry, supports, operator) ==
    LET sale_type == IF sale_type_tag = 0 THEN "Fixed" ELSE "Auction"
        rec == TokenState(sale_type, "Listed", invoker,
                          IF k \in DOMAIN toks THEN expiry ELSE 0, Sentinel, price)
        written == [x \in DOMAIN toks \cup {k} |-> IF x = k THEN rec ELSE toks[x]]
        e == IF ensure_supports_cis2(supports) # "Ok" THEN ensure_supports_cis2(supports)
             ELSE IF ensure_is_operator(operator) # "Ok" THEN ensure_is_operator(operator)
             ELSE ensure_balance(hold, k, invoker)
    IN  Outcome(e, written, hold, <<>>, <<>>)

\* add asking the token contract about the operator before CIS-2 support.
add_operator_first(toks, hold, invoker, k, price, sale_type_tag, expiry, supports, operator) ==
    IF ensure_is_operator(operator) # "Ok"
      THEN Reject(ensure_is_operator(operator), toks, hold)
    ELSE IF ensure_supports_cis2(supports) # "Ok"
      THEN Reject(ensure_supports_cis2(supports), toks, hold)
    ELSE IF ensure_balance(hold, k, invoker) # "Ok"
      THEN Reject(ensure_balance(hold, k, invoker), toks, hold)
    ELSE
      LET rec == TokenState(IF sale_type_tag = 0 THEN "Fixed" ELSE "Auction", "Listed",
                            invoker, IF k \in DOMAIN toks THEN expiry ELSE 0, Sentinel, price)
      IN  Outcome("Ok", [x \in DOMAIN toks \cup {k} |-> IF x = k THEN rec ELSE toks[x]],
                  hold, <<>>, <<>>)

\* add writing 0 as the expiry of a record it overwrites.
add_relist_drops_expiry(toks, hold, invoker, k, price, sale_type_tag, expiry, supports, operator) ==
    IF ensure_supports_cis2(supports) # "Ok"
      THEN Reject(ensure_supports_cis2(supports), toks, hold)
    ELSE IF ensure_is_operator(operator) # "Ok"
      THEN Reject(ensure_is_operator(operator), toks, hold)
    ELSE IF ensure_balance(hold, k, invoker) # "Ok"
      THEN Reject(ensure_balance(hold, k, invoker), toks, hold)
    ELSE
      LET rec == TokenState(IF sale_type_tag = 0 THEN "Fixed" ELSE "Auction", "Listed",
                            invoker, 0, Sentinel, price)
      IN  Outcome("Ok", [x \in DOMAIN toks \cup {k} |-> IF x = k THEN rec ELSE toks[x]],
                  hold, <<>>, <<>>)

\* add recording the lister as the highest bidder.
add_lister_as_bidder(toks, hold, invoker, k, price, sale_type_tag, expiry, supports, operator) ==
    IF ensure_supports_cis2(supports) # "Ok"
      THEN Reject(ensure_supports_cis2(supports), toks, hold)
    ELSE IF ensure_is_operator(operator) # "Ok"
      THEN Reject(ensure_is_operator(operator), toks, hold)
    ELSE IF ensure_balance(hold, k, invoker) # "Ok"
      THEN Reject(ensure_balance(hold, k, invoker), toks, hold)
    ELSE
      LET rec == TokenState(IF sale_type_tag = 0 THEN "Fixed" ELSE "Auction", "Listed",
                            invoker, IF k \in DOMAIN toks THEN expiry ELSE 0, invoker, price)
      IN  Outcome("Ok", [x \in DOMAIN toks \cup {k} |-> IF x = k THEN rec ELSE toks[x]],
                  hold, <<>>, <<>>)

add(toks, hold, invoker, k, price, sale_type_tag, expiry, supports, operator) ==
    IF ensure_supports_cis2(supports) # "Ok"
      THEN Reject(ensure_supports_cis2(supports), toks, hold)
    ELSE IF ensure_is_operator(operator) # "Ok"
      THEN Reject(ensure_is_operator(operator), toks, hold)
    ELSE IF ensure_balance(hold, k, invoker) # "Ok"
      THEN Reject(ensure_balance(hold, k, invoker), toks, hold)
    ELSE
      LET sale_type == IF sale_type_tag = 0 THEN "Fixed" ELSE "Auction"
          written ==
            IF k \in DOMAIN toks
              THEN [toks EXCEPT ![k] =
                      TokenState(sale_type, "Listed", invoker, expiry, Sentinel, price)]
              ELSE [x \in DOMAIN toks \cup {k} |->
                      IF x = k
                        THEN TokenState(sale_type, "Listed", invoker, 0, Sentinel, price)
                        ELSE toks[x]]
      IN  Outcome("Ok", written, hold, <<>>, <<>>)

\* ---------------------------------------------------------------- trade_nft
\* The value the handlers assign to their copy of the record on settlement.
ResetState(owner) == TokenState("Fixed", "UnListed", owner, 0, Sentinel, 0)

\* Fixed-price branch (params.sale_type == 0).  `balance` is the contract's
\* balance during the call, the attached amount included.
trade_fixed_pays_ask(toks, hold, balance, invoker, k, amount, accept) ==
    LET token_state == toks[k] IN
    IF token_state.sale_type # "Fixed" THEN Reject("NotMatchedSaleType", toks, hold)
    ELSE IF ~Cis2TransferOk(hold, k, token_state.owner, accept)
      THEN Reject("Cis2ClientError", toks, hold)
    ELSE IF ~invoke_transfer_ok(balance, token_state.price)
      THEN Reject("InvokeTransferError", toks, hold)
    ELSE Outcome("Ok", toks, [hold EXCEPT ![k] = invoker],
                 << <<token_state.owner, token_state.price>> >>,
                 << <<token_state.owner, invoker>> >>)

\* trade_fixed without the test of the record's sale_type.
trade_fixed_any_type(toks, hold, balance, invoker, k, amount, accept) ==
    LET token_state == toks[k] IN
    IF ~Cis2TransferOk(hold, k, token_state.owner, accept)
      THEN Reject("Cis2ClientError", toks, hold)
    ELSE IF ~invoke_transfer_ok(balance, amount)
      THEN Reject("InvokeTransferError", toks, hold)
    ELSE Outcome("Ok", toks, [hold EXCEPT ![k] = invoker],
                 << <<token_state.owner, amount>> >>,
                 << <<token_state.owner, invoker>> >>)

trade_fixed(toks, hold, balance, invoker, k, amount, accept) ==
    LET token_state == toks[k]
        \* lines 230-235 assign this to the copy, which is dropped at return
        token_state_at_return == ResetState(invoker)
    IN
    IF token_state.sale_type # "Fixed" THEN Reject("NotMatchedSaleType", toks, hold)
    ELSE IF ~Cis2TransferOk(hold, k, token_state.owner, accept)
      THEN Reject("Cis2ClientError", toks, hold)
    ELSE IF ~invoke_transfer_ok(balance, amount)
      THEN Reject("InvokeTransferError", toks, hold)
    ELSE Outcome("Ok", toks, [hold EXCEPT ![k] = invoker],
                 << <<token_state.owner, amount>> >>,
                 << <<token_state.owner, invoker>> >>)

\* trade_auction with the expiry test written `<` instead of `<=`.
trade_auction_strict_expiry(toks, hold, balance, invoker, k, amount, slot_time) ==
    LET token_state == toks[k] IN
    IF token_state.sale_type # "Auction" THEN Reject("NotMatchedSaleType", toks, hold)
    ELSE IF ~(slot_time < token_state.expiry) THEN Reject("ExpiredAlready", toks, hold)
    ELSE IF invoker = token_state.owner THEN Reject("CanNotBidYourSelf", toks, hold)
    ELSE IF token_state.highest_bidder # Sentinel
      THEN IF ~invoke_transfer_ok(balance, token_state.price)
             THEN Reject("InvokeTransferError", toks, hold)
             ELSE Outcome("Ok", toks, hold,
                          << <<token_state.highest_bidder, token_state.price>> >>, <<>>)
    ELSE Outcome("Ok", toks, hold, <<>>, <<>>)

\* trade_auction without the test that the bidder is not the owner.
trade_auction_owner_may_bid(toks, hold, balance, invoker, k, amount, slot_time) ==
    LET token_state == toks[k] IN
    IF token_state.sale_type # "Auction" THEN Reject("NotMatchedSaleType", toks, hold)
    ELSE IF ~(slot_time <= token_state.expiry) THEN Reject("ExpiredAlready", toks, hold)
    ELSE IF token_state.highest_bidder # Sentinel
      THEN IF ~invoke_transfer_ok(balance, token_state.price)
             THEN Reject("InvokeTransferError", toks, hold)
             ELSE Outcome("Ok", toks, hold,
                          << <<token_state.highest_bidder, token_state.price>> >>, <<>>)
    ELSE Outcome("Ok", toks, hold, <<>>, <<>>)

\* Auction branch (params.sale_type == 1).
trade_auction(toks, hold, balance, invoker, k, amount, slot_time) ==
    LET token_state == toks[k]
        \* lines 248-249 assign these to the copy, which is dropped at return
        token_state_at_return ==
            [token_state EXCEPT !.highest_bidder = invoker, !.price = amount]
    IN
    IF token_state.sale_type # "Auction" THEN Reject("NotMatchedSaleType", toks, hold)
    ELSE IF ~(slot_time <= token_state.expiry) THEN Reject("ExpiredAlready", toks, hold)
    ELSE IF invoker = token_state.owner THEN Reject("CanNotBidYourSelf", toks, hold)
    ELSE IF token_state.highest_bidder # Sentinel
      THEN IF ~invoke_transfer_ok(balance, token_state.price)
             THEN Reject("InvokeTransferError", toks, hold)
             ELSE Outcome("Ok", toks, hold,
                          << <<token_state.highest_bidder, token_state.price>> >>, <<>>)
    ELSE Outcome("Ok", toks, hold, <<>>, <<>>)

\* trade_nft with the payment test written `>=` instead of `>`.
trade_nft_accepts_equal(toks, hold, balance, invoker, k, tag, amount, slot_time, accept) ==
    IF k \notin DOMAIN toks THEN Reject("TokenNotListed", toks, hold)
    ELSE IF ~(amount >= toks[k].price) THEN Reject("NotEnoughBalance", toks, hold)
    ELSE IF tag = 0 THEN trade_fixed(toks, hold, balance, invoker, k, amount, accept)
    ELSE IF tag = 1 THEN trade_auction(toks, hold, balance, invoker, k, amount, slot_time)
    ELSE Outcome("Ok", toks, hold, <<>>, <<>>)

trade_nft(toks, hold, balance, invoker, k, tag, amount, slot_time, accept) ==
    IF k \notin DOMAIN toks THEN Reject("TokenNotListed", toks, hold)
    ELSE IF ~(amount > toks[k].price) THEN Reject("NotEnoughBalance", toks, hold)
    ELSE IF tag = 0 THEN trade_fixed(toks, hold, balance, invoker, k, amount, accept)
    ELSE IF tag = 1 THEN trade_auction(toks, hold, balance, invoker, k, amount, slot_time)
    ELSE Outcome("Ok", toks, hold, <<>>, <<>>)

\* ---------------------------------------------------------------- cancel_trade
\* cancel_trade removing the record it cancels.
cancel_trade_removes(toks, hold, sender, k, tag) ==
    IF k \notin DOMAIN toks THEN Reject("TokenNotListed", toks, hold)
    ELSE IF toks[k].curr_state # "Listed" THEN Reject("CanceledAlready", toks, hold)
    ELSE IF sender # toks[k].owner THEN Reject("Unauthorized", toks, hold)
    ELSE IF tag = 0 /\ toks[k].sale_type # "Fixed"
      THEN Reject("NotMatchedSaleType", toks, hold)
    ELSE IF tag = 1 /\ toks[k].sale_type # "Auction"
      THEN Reject("NotMatchedSaleType", toks, hold)
    ELSE Outcome("Ok", [x \in DOMAIN toks \ {k} |-> toks[x]], hold, <<>>, <<>>)

cancel_trade(toks, hold, sender, k, tag) ==
    IF k \notin DOMAIN toks THEN Reject("TokenNotListed", toks, hold)
    ELSE
      LET token_state == toks[k]
          \* lines 299-303 assign this to the copy, which is dropped at return
          token_state_at_return == ResetState(token_state.owner)
      IN
      IF token_state.curr_state # "Listed" THEN Reject("CanceledAlready", toks, hold)
      ELSE IF sender # token_state.owner THEN Reject("Unauthorized", toks, hold)
      ELSE IF tag = 0 /\ token_state.sale_type # "Fixed"
        THEN Reject("NotMatchedSaleType", toks, hold)
      ELSE IF tag = 1 /\ token_state.sale_type # "Auction"
        THEN Reject("NotMatchedSaleType", toks, hold)
      ELSE Outcome("Ok", toks, hold, <<>>, <<>>)

\* The settlement of finalise_trade (lines 348-366), shared by its variants.
Settle(toks, hold, balance, invoker, k, accept) ==
    IF ~invoke_transfer_ok(balance, toks[k].price)
      THEN Reject("InvokeTransferError", toks, hold)
    ELSE IF ~Cis2TransferOk(hold, k, toks[k].owner, accept)
      THEN Reject("Cis2ClientError", toks, hold)
    ELSE Outcome("Ok", toks, [hold EXCEPT ![k] = invoker],
                 << <<toks[k].owner, toks[k].price>> >>, << <<toks[k].owner, invoker>> >>)

\* finalise_trade without the test of the tag.
finalise_trade_any_tag(toks, hold, balance, sender, k, tag, accept) ==
    IF k \notin DOMAIN toks THEN Reject("TokenNotListed", toks, hold)
    ELSE IF sender # toks[k].owner THEN Reject("Unauthorized", toks, hold)
    ELSE IF toks[k].highest_bidder # Sentinel
      THEN Settle(toks, hold, balance, sender, k, accept)
    ELSE Reject("NotBidded", toks, hold)

\* finalise_trade without the test that the sender is the owner.
finalise_trade_no_auth(toks, hold, balance, sender, k, tag, accept) ==
    IF ~(tag >= 1) THEN Reject("NotMatchedSaleType", toks, hold)
    ELSE IF k \notin DOMAIN toks THEN Reject("TokenNotListed", toks, hold)
    ELSE IF toks[k].highest_bidder # Sentinel
      THEN Settle(toks, hold, balance, sender, k, accept)
    ELSE Reject("NotBidded", toks, hold)

\* finalise_trade settling whether or not there is a bidder.
finalise_trade_settles_unbid(toks, hold, balance, sender, k, tag, accept) ==
    IF ~(tag >= 1) THEN Reject("NotMatchedSaleType", toks, hold)
    ELSE IF k \notin DOMAIN toks THEN Reject("TokenNotListed", toks, hold)
    ELSE IF sender # toks[k].owner THEN Reject("Unauthorized", toks, hold)
    ELSE Settle(toks, hold, balance, sender, k, accept)

\* ---------------------------------------------------------------- finalise_trade
finalise_trade(toks, hold, balance, sender, k, tag, accept) ==
    IF ~(tag >= 1) THEN Reject("NotMatchedSaleType", toks, hold)
    ELSE IF k \notin DOMAIN toks THEN Reject("TokenNotListed", toks, hold)
    ELSE
      LET token_state == toks[k]
          \* the caller is an account, so ctx.invoker() is the sender
          invoker == sender
          \* lines 361-366 assign this to the copy, which is dropped at return
          token_state_at_return == ResetState(invoker)
      IN
      IF sender # token_state.owner THEN Reject("Unauthorized", toks, hold)
      ELSE IF token_state.highest_bidder # Sentinel
        THEN IF ~invoke_transfer_ok(balance, token_state.price)
               THEN Reject("InvokeTransferError", toks, hold)
             ELSE IF ~Cis2TransferOk(hold, k, token_state.owner, accept)
               THEN Reject("Cis2ClientError", toks, hold)
             ELSE Outcome("Ok", toks, [hold EXCEPT ![k] = invoker],
                          << <<token_state.owner, token_state.price>> >>,
                          << <<token_state.owner, invoker>> >>)
      ELSE Reject("NotBidded", toks, hold)

\* ---------------------------------------------------------------- the calls
\* The transaction just executed, as the chain reports it: an accepted call
\* with its sender, parameters and transfers, a rejected one with its reject
\* reason only.  `amount` is the ask of a list call and the attached payment
\* of a trade call; `expiry` is the expiry given to a list call.
Call(op, invoker, k, tag, amount, expiry, out) ==
    IF out.result = "Ok"
      THEN [op |-> op, invoker |-> invoker, key |-> k, tag |-> tag, amount |-> amount,
            expiry |-> expiry,
            result |-> out.result, paid |-> out.paid, moved |-> out.moved]
      ELSE [op |-> op, invoker |-> Sentinel, key |-> k, tag |-> 0, amount |-> 0,
            expiry |-> 0,
            result |-> out.result, paid |-> <<>>, moved |-> <<>>]

\* What the contract keeps of the CCD attached to a call: nothing when the
\* call is rejected, else the attached amount less what it paid out.
Kept(out, attached) ==
    IF out.result = "Ok" THEN attached - SumPaid(out.paid) ELSE 0

Init ==
    /\ tokens = [k \in {} |-> 0]
    /\ holder \in [Keys -> Accounts]
    /\ escrow = [k \in Keys |-> 0]
    /\ now = 0
    /\ last = [op |-> "init", invoker |-> Sentinel, key |-> CHOOSE k \in Keys : TRUE,
               tag |-> 0, amount |-> 0, expiry |-> 0, result |-> "Ok",
               paid |-> <<>>, moved |-> <<>>]

PlaceIntoMarket ==
    \E invoker \in Accounts, k \in Keys, price \in 0..MaxPrice, tag \in Tags,
       expiry \in 0..MaxTime, supports \in Answers :
        \* operatorOf is queried only once the supports query has passed
        \E operator \in IF supports = "Yes" THEN Answers ELSE {"Yes"} :
            LET out == add(tokens, holder, invoker, k, price, tag, expiry, supports, operator)
            IN  /\ tokens' = out.tokens
                /\ holder' = out.holder
                /\ last' = Call("list", invoker, k, tag, price, expiry, out)
                /\ UNCHANGED <<escrow, now>>

TradeMarket ==
    \E invoker \in Accounts, k \in Keys, tag \in Tags, amount \in 0..MaxAmount,
       accept \in BOOLEAN :
        LET out == trade_nft(tokens, holder, Balance + amount, invoker, k, tag, amount,
                             now, accept)
        IN  /\ escrow[k] + Kept(out, amount) <= MaxEscrow
            /\ tokens' = out.tokens
            /\ holder' = out.holder
            /\ escrow' = [escrow EXCEPT ![k] = @ + Kept(out, amount)]
            /\ last' = Call("trade", invoker, k, tag, amount, 0, out)
            /\ UNCHANGED now

CancelTrade ==
    \E sender \in Accounts, k \in Keys, tag \in Tags :
        LET out == cancel_trade(tokens, holder, sender, k, tag)
        IN  /\ tokens' = out.tokens
            /\ holder' = out.holder
            /\ last' = Call("cancel", sender, k, tag, 0, 0, out)
            /\ UNCHANGED <<escrow, now>>

FinaliseTrade ==
    \E sender \in Accounts, k \in Keys, tag \in Tags, accept \in BOOLEAN :
        LET out == finalise_trade(tokens, holder, Balance, sender, k, tag, accept)
        IN  /\ tokens' = out.tokens
            /\ holder' = out.holder
            /\ escrow' = [escrow EXCEPT ![k] = @ + Kept(out, 0)]
            /\ last' = Call("finalize", sender, k, tag, 0, 0, out)
            /\ UNCHANGED now

\* The ledger's slot time moves on between transactions.
Tick ==
    /\ now < MaxTime
    /\ now' = now + 1
    /\ UNCHANGED <<tokens, holder, escrow, last>>

Next == PlaceIntoMarket \/ TradeMarket \/ CancelTrade \/ FinaliseTrade \/ Tick

Spec == Init /\ [][Next]_vars

\* ---------------------------------------------------------------- lemmas
\* Only add writes the map, and it writes Listed records without a bidder.
StoredRecordsComeFromAdd ==
    \A k \in DOMAIN tokens :
        tokens[k].curr_state = "Listed" /\ tokens[k].highest_bidder = Sentinel

\* finalise_trade therefore never gets past NotBidded.
FinaliseNeverSucceeds == last.op = "finalize" => last.result # "Ok"

\* ---------------------------------------------------------------- claims
\* A step that is a call of a receive function (Tick alone moves `now`).
IsCall == now' = now

AcceptedBid(c) == c.op = "trade" /\ c.tag = 1 /\ c.result = "Ok"

AcceptedPurchase(c) == c.op = "trade" /\ c.tag = 0 /\ c.result = "Ok"

\* C1: in every reachable state, every Listed Auction record's price equals
\* the native funds the marketplace holds in escrow for that listing.
CE_C1_AuctionPriceIsEscrow ==
    \A k \in DOMAIN tokens :
        (tokens[k].curr_state = "Listed" /\ tokens[k].sale_type = "Auction")
            => tokens[k].price = escrow[k]

CE_C4_BidIsRecorded ==
    AcceptedBid(last)
        => /\ tokens[last.key].highest_bidder = last.invoker
           /\ tokens[last.key].price = last.amount

\* C5: a bid accepted on an auction that already has an accepted bid pays the
\* previous bidder exactly the previous bid, in the same call.
CE_C5_OutbidIsRefunded ==
    [][(IsCall /\ AcceptedBid(last) /\ AcceptedBid(last') /\ last'.key = last.key)
          => last'.paid = << <<last.invoker, last.amount>> >>]_vars

\* C6: an accepted fixed-price trade is made with a payment above the ask,
\* moves the token from the record's owner to the caller and forwards exactly
\* the attached payment to the record's owner; a rejected trade moves neither
\* the token nor any funds.
Thm_C6_PurchaseExchanges ==
    [][(IsCall /\ last'.op = "trade")
          => /\ AcceptedPurchase(last')
                  => /\ last'.key \in DOMAIN tokens
                     /\ tokens[last'.key].sale_type = "Fixed"
                     /\ last'.amount > tokens[last'.key].price
                     /\ holder[last'.key] = tokens[last'.key].owner
                     /\ holder'[last'.key] = last'.invoker
                     /\ last'.moved = << <<tokens[last'.key].owner, last'.invoker>> >>
                     /\ last'.paid = << <<tokens[last'.key].owner, last'.amount>> >>
                     /\ escrow' = escrow
             /\ last'.result # "Ok"
                  => (holder' = holder /\ escrow' = escrow /\ last'.paid = <<>>
                      /\ last'.moved = <<>>)]_vars

\* C6 witness: a buyer other than the seller has bought the token; it is in
\* the buyer's custody and the seller was paid the attached amount.
Wit_C6_Purchased ==
    /\ AcceptedPurchase(last)
    /\ last.amount > 0
    /\ Len(last.moved) = 1
    /\ last.moved[1][2] = last.invoker
    /\ last.moved[1][1] # last.invoker
    /\ holder[last.key] = last.invoker
    /\ last.paid = << <<last.moved[1][1], last.amount>> >>

\* C7: after an accepted fixed-price trade the stored record is Unlisted with
\* owner = the buyer, price = 0, expiry = 0 and highest_bidder = sentinel.
CE_C7_PurchaseResetsRecord ==
    AcceptedPurchase(last) => tokens[last.key] = ResetState(last.invoker)

\* C10: after an accepted cancel the stored record is Unlisted with price = 0,
\* expiry = 0 and highest_bidder = sentinel, and any further cancel on the
\* key fails with CanceledAlready.
CE_C10_CancelResetsRecord ==
    (last.op = "cancel" /\ last.result = "Ok")
        => /\ tokens[last.key].curr_state = "UnListed"
           /\ tokens[last.key].price = 0
           /\ tokens[last.key].expiry = 0
           /\ tokens[last.key].highest_bidder = Sentinel
           /\ \A sender \in Accounts, tag \in Tags :
                cancel_trade(tokens, holder, sender, last.key, tag).result
                    = "CanceledAlready"

\* C11: a cancel on a Listed auction for which a bid has been accepted (and is
\* held by the marketplace) is rejected.
CE_C11_NoCancelWithBid ==
    [][(IsCall /\ AcceptedBid(last) /\ last'.op = "cancel" /\ last'.key = last.key)
          => last'.result # "Ok"]_vars

AcceptedList(c) == c.op = "list" /\ c.result = "Ok"

\* C12: an accepted list call, on a key with or without a record, stores
\* owner = caller, sale_type from the flag (0 = Fixed, 1 = Auction), status
\* Listed, highest_bidder = sentinel, price = the ask, and expiry = the given
\* expiry for an auction and 0 for a fixed-price listing.
CE_C12_ListStoresRecord ==
    (AcceptedList(last) /\ last.tag \in {0, 1})
        => /\ last.key \in DOMAIN tokens
           /\ tokens[last.key] =
                TokenState(IF last.tag = 0 THEN "Fixed" ELSE "Auction", "Listed",
                           last.invoker, IF last.tag = 0 THEN 0 ELSE last.expiry,
                           Sentinel, last.amount)

\* Every bid (tag 1) on key k of the map toks, made by an account other than
\* the owner with a payment above the price, at a time from `from` on that is
\* not past E, is accepted and stored as highest_bidder and price.
BidsAreTaken(toks, hold, balance, k, E, from) ==
    \A bidder \in Accounts \ {toks[k].owner},
       amount \in (toks[k].price + 1)..MaxAmount, t \in from..E :
        LET bid == trade_nft(toks, hold, balance + amount, bidder, k, 1, amount, t, TRUE)
        IN  /\ bid.result = "Ok"
            /\ bid.tokens[k].highest_bidder = bidder
            /\ bid.tokens[k].price = amount

\* C13: on a key listed for the first time as an auction with expiry E, a
\* bid (tag 1) made at a time not past E by an account other than the owner,
\* with a payment above the record's price, is accepted and stored as
\* highest_bidder and price.
CE_C13_FirstAuctionTakesBid ==
    [][(IsCall /\ AcceptedList(last') /\ last'.tag = 1 /\ last'.key \notin DOMAIN tokens)
          => BidsAreTaken(tokens', holder', SumKeys(escrow', Keys), last'.key,
                          last'.expiry, now')]_vars

\* C14: a trade (purchase or bid, any tag) on a stored record whose attached
\* payment is less than or equal to the record's price fails with
\* NotEnoughBalance and changes nothing; payment equal to the price fails too.
Thm_C14_PaymentMustExceedPrice ==
    \A k \in DOMAIN tokens, invoker \in Accounts, tag \in Tags, amount \in 0..MaxAmount,
       accept \in BOOLEAN :
        amount <= tokens[k].price
            => trade_nft(tokens, holder, Balance + amount, invoker, k, tag, amount, now,
                         accept)
               = Reject("NotEnoughBalance", tokens, holder)

\* C14 witness: a trade on a record with a positive price was rejected with
\* NotEnoughBalance.
Wit_C14_Underpaid ==
    /\ last.op = "trade"
    /\ last.result = "NotEnoughBalance"
    /\ last.key \in DOMAIN tokens
    /\ tokens[last.key].price > 0

\* C15: a trade is accepted only on a Listed record: after a purchase, a
\* cancel or a finalize on a key, and before any new list, a trade on that
\* key is rejected, so one listing is bought at most once.
CE_C15_TradeNeedsListed ==
    [][(/\ IsCall
        /\ last.result = "Ok"
        /\ (AcceptedPurchase(last) \/ last.op \in {"cancel", "finalize"})
        /\ last'.op = "trade"
        /\ last'.tag \in {0, 1}
        /\ last'.key = last.key)
          => last'.result # "Ok"]_vars


AuctionKeys == {k \in DOMAIN tokens : tokens[k].sale_type = "Auction"}

Bid(invoker, k, amount) ==
    trade_nft(tokens, holder, Balance + amount, invoker, k, 1, amount, now, TRUE)

\* C16 as stated: every bid on an Auction record made when the current time
\* is past the record's expiry fails with ExpiredAlready and changes nothing,
\* and a bid made at a time less than or equal to expiry is not rejected for
\* expiry.
CE_C16_LateBidExpired ==
    \A k \in AuctionKeys, invoker \in Accounts, amount \in 0..MaxAmount :
        /\ now > tokens[k].expiry
             => Bid(invoker, k, amount) = Reject("ExpiredAlready", tokens, holder)
        /\ now <= tokens[k].expiry
             => Bid(invoker, k, amount).result # "ExpiredAlready"

\* C16 amended: a bid on an Auction record whose payment exceeds the price,
\* made when the current time is past the record's expiry, fails with
\* ExpiredAlready and changes nothing (with a payment up to the price it
\* fails with NotEnoughBalance instead), and a bid made at a time less than
\* or equal to expiry is not rejected for expiry.
Thm_C16_LateBidExpired ==
    \A k \in AuctionKeys, invoker \in Accounts, amount \in 0..MaxAmount :
        /\ (now > tokens[k].expiry /\ amount > tokens[k].price)
             => Bid(invoker, k, amount) = Reject("ExpiredAlready", tokens, holder)
        /\ (now > tokens[k].expiry /\ amount <= tokens[k].price)
             => Bid(invoker, k, amount) = Reject("NotEnoughBalance", tokens, holder)
        /\ now <= tokens[k].expiry
             => Bid(invoker, k, amount).result # "ExpiredAlready"

\* C16 witness: a bid on an Auction record was rejected with ExpiredAlready at
\* a time past the record's expiry.
Wit_C16_BidAfterExpiry ==
    /\ last.op = "trade"
    /\ last.result = "ExpiredAlready"
    /\ last.key \in AuctionKeys
    /\ now > tokens[last.key].expiry

\* C17 as stated: every bid by the record's owner fails with
\* CanNotBidYourSelf, and the highest_bidder of a Listed auction is never the
\* record's owner.
CE_C17_OwnerBidRejected ==
    \A k \in AuctionKeys :
        /\ \A amount \in 0..MaxAmount :
             Bid(tokens[k].owner, k, amount) = Reject("CanNotBidYourSelf", tokens, holder)
        /\ tokens[k].curr_state = "Listed" => tokens[k].highest_bidder # tokens[k].owner

\* C17 amended: a bid by the record's owner never succeeds and changes
\* nothing; it fails with CanNotBidYourSelf when its payment exceeds the price
\* and the time is not past expiry (otherwise with NotEnoughBalance or
\* ExpiredAlready), and the highest_bidder of a Listed auction is never the
\* record's owner.
Thm_C17_OwnerBidRejected ==
    \A k \in AuctionKeys :
        /\ \A amount \in 0..MaxAmount :
             LET bid == Bid(tokens[k].owner, k, amount)
             IN  /\ bid.result \in {"NotEnoughBalance", "ExpiredAlready", "CanNotBidYourSelf"}
                 /\ bid = Reject(bid.result, tokens, holder)
                 /\ (amount > tokens[k].price /\ now <= tokens[k].expiry)
                      => bid.result = "CanNotBidYourSelf"
        /\ tokens[k].curr_state = "Listed" => tokens[k].highest_bidder # tokens[k].owner

\* C17 witness: a bid on an Auction record was rejected with CanNotBidYourSelf.
Wit_C17_OwnerBid ==
    /\ last.op = "trade"
    /\ last.result = "CanNotBidYourSelf"
    /\ last.key \in AuctionKeys


Strangers(k) == Accounts \ {tokens[k].owner}

\* C18 as stated: cancel and finalize called on an existing record by any
\* account other than the record's owner fail with Unauthorized and change
\* nothing.
CE_C18_OnlyOwnerSettlesOrCancels ==
    \A k \in DOMAIN tokens, tag \in Tags, accept \in BOOLEAN :
        \A sender \in Strangers(k) :
            /\ cancel_trade(tokens, holder, sender, k, tag)
                 = Reject("Unauthorized", tokens, holder)
            /\ finalise_trade(tokens, holder, Balance, sender, k, tag, accept)
                 = Reject("Unauthorized", tokens, holder)

\* C18 amended: cancel, and finalize with tag 1 or more, called on an existing
\* record by any account other than the record's owner fail with Unauthorized
\* and change nothing; finalize with tag 0 fails with NotMatchedSaleType
\* before the caller is looked at; only the owner can settle or cancel.
Thm_C18_OnlyOwnerSettlesOrCancels ==
    \A k \in DOMAIN tokens, tag \in Tags, accept \in BOOLEAN :
        \A sender \in Strangers(k) :
            /\ cancel_trade(tokens, holder, sender, k, tag)
                 = Reject("Unauthorized", tokens, holder)
            /\ finalise_trade(tokens, holder, Balance, sender, k, tag, accept)
                 = Reject(IF tag >= 1 THEN "Unauthorized" ELSE "NotMatchedSaleType",
                          tokens, holder)

\* C18 witness: a finalize on a stored record was rejected with Unauthorized.
Wit_C18_StrangerSettles ==
    /\ last.op = "finalize"
    /\ last.result = "Unauthorized"
    /\ last.key \in DOMAIN tokens

UnbidKeys == {k \in DOMAIN tokens : tokens[k].highest_bidder = Sentinel}

\* C19 as stated: finalize called by the owner on a record whose
\* highest_bidder is the sentinel fails with NotBidded, pays nothing, moves no
\* token and changes nothing.
CE_C19_NoBidNoSettlement ==
    \A k \in UnbidKeys, tag \in Tags, accept \in BOOLEAN :
        finalise_trade(tokens, holder, Balance, tokens[k].owner, k, tag, accept)
            = Reject("NotBidded", tokens, holder)

\* C19 amended: finalize called with tag 1 or more by the owner on a record
\* whose highest_bidder is the sentinel fails with NotBidded, pays nothing,
\* moves no token and changes nothing; with tag 0 it fails with
\* NotMatchedSaleType, equally without effect.
Thm_C19_NoBidNoSettlement ==
    \A k \in UnbidKeys, tag \in Tags, accept \in BOOLEAN :
        finalise_trade(tokens, holder, Balance, tokens[k].owner, k, tag, accept)
            = Reject(IF tag >= 1 THEN "NotBidded" ELSE "NotMatchedSaleType", tokens, holder)

\* C19 witness: a finalize on a record without a bidder was rejected with
\* NotBidded.
Wit_C19_SettledWithoutBid ==
    /\ last.op = "finalize"
    /\ last.result = "NotBidded"
    /\ last.key \in UnbidKeys

\* C20: once a bid has been accepted on an auction whose token the owner still
\* holds, finalize by the owner succeeds, at any time before or after expiry.
CE_C20_SettlementIgnoresExpiry ==
    (/\ AcceptedBid(last)
     /\ last.key \in AuctionKeys
     /\ holder[last.key] = tokens[last.key].owner)
        => finalise_trade(tokens, holder, Balance, tokens[last.key].owner, last.key, 1,
                          TRUE).result = "Ok"


\* The sale_type a tag of 0 or 1 names.
TagType(tag) == IF tag = 0 THEN "Fixed" ELSE "Auction"

Trade(invoker, k, tag, amount, accept) ==
    trade_nft(tokens, holder, Balance + amount, invoker, k, tag, amount, now, accept)

\* C21 as stated: a trade whose tag (0 or 1) does not match the record's
\* sale_type fails with NotMatchedSaleType for every attached payment, and
\* changes nothing.
CE_C21_TradeTagMustMatch ==
    \A k \in DOMAIN tokens, invoker \in Accounts, tag \in {0, 1}, amount \in 0..MaxAmount,
       accept \in BOOLEAN :
        TagType(tag) # tokens[k].sale_type
            => Trade(invoker, k, tag, amount, accept)
               = Reject("NotMatchedSaleType", tokens, holder)

\* C21 amended: a trade whose tag (0 or 1) does not match the record's
\* sale_type fails and changes nothing, for every attached payment: with
\* NotMatchedSaleType when the payment exceeds the record's price, with
\* NotEnoughBalance when it does not.
Thm_C21_TradeTagMustMatch ==
    \A k \in DOMAIN tokens, invoker \in Accounts, tag \in {0, 1}, amount \in 0..MaxAmount,
       accept \in BOOLEAN :
        TagType(tag) # tokens[k].sale_type
            => Trade(invoker, k, tag, amount, accept)
               = Reject(IF amount > tokens[k].price THEN "NotMatchedSaleType"
                                                    ELSE "NotEnoughBalance",
                        tokens, holder)

\* C21 witness: a trade on a stored record was rejected with
\* NotMatchedSaleType.
Wit_C21_WrongTradeTag ==
    /\ last.op = "trade"
    /\ last.result = "NotMatchedSaleType"
    /\ last.key \in DOMAIN tokens

\* C22: a cancel that is accepted carries the tag of the record's sale_type;
\* with any other tag value the cancel is rejected.
CE_C22_CancelTagMustMatch ==
    (last.op = "cancel" /\ last.result = "Ok")
        => /\ last.tag \in {0, 1}
           /\ tokens[last.key].sale_type = TagType(last.tag)

FixedKeys == {k \in DOMAIN tokens : tokens[k].sale_type = "Fixed"}

\* C23 as stated: finalize fails with NotMatchedSaleType whenever its tag is
\* 0, and whenever the owner calls it with tag 1 on a Fixed record; the state
\* is unchanged.
CE_C23_FinalizeTagMustMatch ==
    /\ \A k \in Keys, sender \in Accounts, accept \in BOOLEAN :
         finalise_trade(tokens, holder, Balance, sender, k, 0, accept)
            = Reject("NotMatchedSaleType", tokens, holder)
    /\ \A k \in FixedKeys, accept \in BOOLEAN :
         finalise_trade(tokens, holder, Balance, tokens[k].owner, k, 1, accept)
            = Reject("NotMatchedSaleType", tokens, holder)

\* C23 amended: finalize fails with NotMatchedSaleType whenever its tag is 0;
\* called by the owner with tag 1 on a Fixed record it fails with NotBidded
\* (the record's sale_type is not looked at, and a Fixed record has no
\* bidder); in both cases the state is unchanged.
Thm_C23_FinalizeTagMustMatch ==
    /\ \A k \in Keys, sender \in Accounts, accept \in BOOLEAN :
         finalise_trade(tokens, holder, Balance, sender, k, 0, accept)
            = Reject("NotMatchedSaleType", tokens, holder)
    /\ \A k \in FixedKeys, accept \in BOOLEAN :
         finalise_trade(tokens, holder, Balance, tokens[k].owner, k, 1, accept)
            = Reject("NotBidded", tokens, holder)

\* C23 witness: a finalize on a Fixed record got as far as the bidder test.
Wit_C23_FinalizeOnFixed ==
    /\ last.op = "finalize"
    /\ last.result = "NotBidded"
    /\ last.key \in FixedKeys


List(invoker, k, price, tag, expiry, supports, operator) ==
    add(tokens, holder, invoker, k, price, tag, expiry, supports, operator)

\* C24: list checks CIS-2 support, then operator approval, then the balance,
\* and the first check that fails names the error (CollectionNotCis2, then
\* NotOperator, then NoBalance); a failed list creates no record and alters
\* none.
Thm_C24_ListChecksInOrder ==
    \A invoker \in Accounts, k \in Keys, price \in 0..MaxPrice, tag \in Tags,
       expiry \in 0..MaxTime, supports \in Answers, operator \in Answers :
        LET out == List(invoker, k, price, tag, expiry, supports, operator)
        IN  /\ supports = "No" => out.result = "CollectionNotCis2"
            /\ (supports = "Yes" /\ operator = "No") => out.result = "NotOperator"
            /\ (supports = "Yes" /\ operator = "Yes" /\ holder[k] # invoker)
                 => out.result = "NoBalance"
            /\ out.result # "Ok" => out = Reject(out.result, tokens, holder)

\* C24 witness: a list by an account without operator approval was rejected
\* with NotOperator, and the key has no record.
Wit_C24_ListWithoutOperator ==
    /\ last.op = "list"
    /\ last.result = "NotOperator"
    /\ last.key \notin DOMAIN tokens


Thm_C26_RelistOverwrites ==
    \A k \in DOMAIN tokens, price \in 0..MaxPrice, tag \in Tags, expiry \in 0..MaxTime :
        LET out == List(holder[k], k, price, tag, expiry, "Yes", "Yes")
        IN  /\ out.result = "Ok"
            /\ out.tokens = [tokens EXCEPT ![k] =
                               TokenState(TagType(tag), "Listed", holder[k], expiry,
                                          Sentinel, price)]
            /\ out.holder = holder
            /\ out.paid = <<>>
            /\ out.moved = <<>>

\* C26 witness: a list with a positive expiry was accepted on a key whose
\* listing holds a payment in escrow, and the record carries the new values.
Wit_C26_RelistOverEscrow ==
    /\ AcceptedList(last)
    /\ last.expiry > 0
    /\ escrow[last.key] > 0
    /\ tokens[last.key] = TokenState(TagType(last.tag), "Listed", last.invoker,
                                     last.expiry, Sentinel, last.amount)

\* C27: every trade that returns success either moved the token to the
\* caller and paid the attached amount to the seller, or recorded the caller
\* as highest_bidder with price = the attached amount.
CE_C27_AcceptedTradeHasEffect ==
    (last.op = "trade" /\ last.result = "Ok")
        => \/ /\ Len(last.moved) = 1
              /\ last.moved[1][2] = last.invoker
              /\ last.paid = << <<last.moved[1][1], last.amount>> >>
           \/ /\ tokens[last.key].highest_bidder = last.invoker
              /\ tokens[last.key].price = last.amount

\* What the records account for: the price of each Listed auction that has a
\* highest_bidder.
Owed ==
    [k \in Keys |->
        IF /\ k \in DOMAIN tokens
           /\ tokens[k].curr_state = "Listed"
           /\ tokens[k].sale_type = "Auction"
           /\ tokens[k].highest_bidder # Sentinel
          THEN tokens[k].price ELSE 0]

\* C28: the marketplace never pays out more than it was paid, and every
\* amount it holds is owed to the highest_bidder of some Listed auction.
CE_C28_EscrowIsOwed ==
    /\ Balance >= 0
    /\ Balance = SumKeys(Owed, Keys)


\* C30: every Fixed record has highest_bidder = sentinel, so no finalize, by
\* any sender with any tag, succeeds on a Fixed record.
Thm_C30_FixedHasNoBidder ==
    \A k \in FixedKeys :
        /\ tokens[k].highest_bidder = Sentinel
        /\ \A sender \in Accounts, tag \in Tags, accept \in BOOLEAN :
             LET out == finalise_trade(tokens, holder, Balance, sender, k, tag, accept)
             IN  out.result # "Ok" /\ out.paid = <<>> /\ out.moved = <<>>

\* C30 witness: a key whose listing holds a payment in escrow has been listed
\* again at a fixed price.
Wit_C30_FixedOverEscrow ==
    /\ AcceptedList(last)
    /\ last.tag = 0
    /\ last.key \in FixedKeys
    /\ escrow[last.key] > 0


\* A step creates records only by an accepted list, for the key listed, and
\* removes none.
RecordsOnlyAdded ==
    /\ DOMAIN tokens \subseteq DOMAIN tokens'
    /\ DOMAIN tokens' # DOMAIN tokens
         => AcceptedList(last') /\ DOMAIN tokens' = DOMAIN tokens \cup {last'.key}

\* What trade, cancel and finalize answer on key k, for every caller, tag,
\* payment and answer of the token contract: `err` for trade and cancel,
\* `errs[tag]` for finalize, with nothing changed.
MissingKeyRejected(k, err, errs) ==
    \A sender \in Accounts, tag \in Tags, accept \in BOOLEAN :
        /\ \A amount \in 0..MaxAmount :
             Trade(sender, k, tag, amount, accept) = Reject(err, tokens, holder)
        /\ cancel_trade(tokens, holder, sender, k, tag) = Reject(err, tokens, holder)
        /\ finalise_trade(tokens, holder, Balance, sender, k, tag, accept)
             = Reject(errs[tag], tokens, holder)

\* C31 as stated: records are created only by a successful list and never
\* removed; trade, cancel and finalize on a key that has no record fail with
\* TokenNotListed and create none.
CE_C31_RecordsStay ==
    [][/\ RecordsOnlyAdded
       /\ (/\ IsCall
           /\ last'.op \in {"trade", "cancel", "finalize"}
           /\ last'.key \notin DOMAIN tokens)
             => last'.result = "TokenNotListed"]_vars

\* C31 amended: records are created only by a successful list and never
\* removed; on a key that has no record, trade, cancel, and finalize with a
\* tag of 1 or more fail with TokenNotListed, finalize with tag 0 fails with
\* NotMatchedSaleType, and none of them creates a record.
Thm_C31_RecordsStay ==
    /\ [](\A k \in Keys \ DOMAIN tokens :
            MissingKeyRejected(k, "TokenNotListed",
                               [tag \in Tags |-> IF tag >= 1 THEN "TokenNotListed"
                                                             ELSE "NotMatchedSaleType"]))
    /\ [][RecordsOnlyAdded]_vars

\* C31 witness: a trade, cancel or finalize on a key without a record was
\* rejected with TokenNotListed, and the key still has no record.
Wit_C31_NoRecordNoCall ==
    /\ last.op \in {"trade", "cancel", "finalize"}
    /\ last.result = "TokenNotListed"
    /\ last.key \notin DOMAIN tokens

====
